---- MODULE Spec2Model ----
(***************************************************************************)
(* Model of animation_normal_modes_CP2K.py: the discovery pass             *)
(* get_natoms_nvib, the parser read_cp2k_molden_file, the animator         *)
(* generate_animation_normal_modes, the writer write_multiple_XYZ_file and *)
(* the __main__ driver.                                                    *)
(*                                                                         *)
(* A line of the input is the token list line.split() yields.  Numbers     *)
(* are integers standing for the reals of the file; a frame computed by    *)
(* coords + m * 0.1 * vibration is kept in tenths (10*coords + m*vib) and  *)
(* a written value x * (1.3/2.5) in thousandths (52 * tenths).             *)
(***************************************************************************)
EXTENDS Integers, Sequences, FiniteSets, TLC

VARIABLES
    input,        \* description of the file on disk (modes, atoms, shape)
    lines,        \* the split lines of the file on disk
    fh,           \* state of the file object of each function that opens one
    frames,       \* global frames (half width of the animation)
    natoms,       \* global natoms
    nvibrations,  \* global nvibrations
    pc,           \* position of the running program
    err,          \* the exception that ended the run, "" when none
    disc,         \* locals of get_natoms_nvib: pos, vib, xyz
    rd,           \* locals of read_cp2k_molden_file
    nmodes,       \* <<record>> returned by read_cp2k_molden_file, <<>> before
    vibArg,       \* mode index handed to generate_animation_normal_modes
    i,            \* loop variable of the driver
    animation,    \* <<record>> returned by the animator, <<>> before
    out           \* out[k+1] is the content of <output>k.xyz

vars == <<input, lines, fh, frames, natoms, nvibrations, pc, err, disc, rd,
          nmodes, vibArg, i, animation, out>>

----------------------------------------------------------------------------
(* Bounds *)

MaxModes == 3
MaxAtoms == 2
MaxFrames == 2
MaxPattern == 2
UMaxAtoms == 3
UMaxModes == 2
UMaxIndex == 3

(* Program constants *)

DefaultFrames == 10
DefaultNatoms == 24
DefaultNvibrations == 100
StepDen == 10
ScaleNum == 52

----------------------------------------------------------------------------
(* Tokens and lines *)

W(s) == [num |-> FALSE, s |-> s, v |-> 0]

Num(v) == [num |-> TRUE, s |-> "", v |-> v]

TokenIn(tok, line) == \E k \in 1..Len(line) : line[k] = tok

Min(a, b) == IF a < b THEN a ELSE b

Max(a, b) == IF a < b THEN b ELSE a

\* line[lo:hi] of Python, lo and hi non-negative
PySlice(line, lo, hi) == SubSeq(line, lo + 1, Min(hi, Len(line)))

\* list(map(float, toks)) raises ValueError on a token that is no number
FloatsOK(toks) == \A k \in 1..Len(toks) : toks[k].num

Floats(toks) == [k \in 1..Len(toks) |-> toks[k].v]

\* row[:] = values of numpy: three values, or one value broadcast
RowAssignOK(vals) == Len(vals) \in {1, 3}

RowAssign(vals) ==
    IF Len(vals) = 3 THEN vals ELSE <<vals[1], vals[1], vals[1]>>

Zeros(n) == [j \in 1..n |-> <<0, 0, 0>>]

----------------------------------------------------------------------------
(* The input file *)

FreqMarker == <<W("[FREQ]")>>

CoordMarker == <<W("[FR-COORD]")>>

NormMarker == <<W("[FR-NORM-COORD]")>>

Header(k) == <<W("vibration"), Num(k)>>

FreqLine(v) == <<Num(v)>>

AtomLine(label, c) == <<W(label), Num(c[1]), Num(c[2]), Num(c[3])>>

DispLine(d) == <<Num(d[1]), Num(d[2]), Num(d[3])>>

LabelNames == <<"C", "H", "O", "N", "S">>

Label(j) == LabelNames[((j - 1) % Len(LabelNames)) + 1]

\* equilibrium geometries the inputs are drawn from
Geometry(g, A) ==
    [j \in 1..A |->
        IF g = 1
        THEN (IF j = 2 THEN <<1, 0, 0>>
              ELSE IF j = 3 THEN <<0, 1, 0>> ELSE <<0, 0, 0>>)
        ELSE <<j, g, 0 - g>>]

\* displacement fields the inputs are drawn from
Field(d, A) ==
    [j \in 1..A |->
        IF d = 1
        THEN (IF j = 1 THEN <<1, 0, 0>> ELSE <<0, 0, 0>>)
        ELSE <<d, j, 0 - d>>]

RECURSIVE Concat(_)
Concat(ss) == IF Len(ss) = 0 THEN <<>> ELSE Head(ss) \o Concat(Tail(ss))

Preamble(p) ==
    IF p = 0 THEN <<>>
    ELSE IF p = 1 THEN << <<W("[Molden"), W("Format]")>> >>
    ELSE << CoordMarker, Header(1), DispLine(<<7, 7, 7>>), NormMarker >>

\* the number of data lines of block k: the first block has one line per
\* atom, the later ones delta lines more (or fewer)
BlockLen(inp, k) == IF k = 1 THEN inp.A ELSE inp.A + inp.delta

\* the data lines of block k, a line past the atoms is a blank line
BlockLines(inp, k) ==
    [j \in 1..BlockLen(inp, k) |->
        IF j <= inp.A THEN DispLine(Field(inp.pat[k], inp.A)[j])
        ELSE <<>>]

FileLines(inp) ==
    Preamble(inp.pre)
    \o (IF inp.missing = "FREQ" THEN <<>> ELSE <<FreqMarker>>)
    \o [k \in 1..inp.N |-> FreqLine(100 * k)]
    \o (IF inp.missing = "COORD" THEN <<>> ELSE <<CoordMarker>>)
    \o [j \in 1..inp.A |-> AtomLine(Label(j), Geometry(inp.geo, inp.A)[j])]
    \o (IF inp.missing = "NORM" THEN <<>> ELSE <<NormMarker>>)
    \o Concat([k \in 1..inp.N |-> <<Header(k)>> \o BlockLines(inp, k)])

\* the shapes of a file: every marker in place with blocks of any length,
\* or one marker missing with blocks of one line per atom
Shapes ==
    { sh \in [missing : {"none", "FREQ", "COORD", "NORM"},
              delta : {0 - 1, 0, 1}] :
        sh.missing # "none" => sh.delta = 0 }

\* the displacement fields a block of a file is drawn from
BlockPatterns == {1, 2}

Inputs ==
    { [N |-> Len(pat), A |-> A, pat |-> pat, geo |-> geo, pre |-> pre,
       missing |-> sh.missing, delta |-> sh.delta] :
        pat \in UNION { [1..N -> BlockPatterns] : N \in 1..MaxModes },
        A \in 1..MaxAtoms, geo \in 1..2, pre \in 0..2, sh \in Shapes }

WellFormed(inp) == inp.missing = "none" /\ inp.delta = 0 /\ inp.N >= 1

\* block k of the file as the displacement field its first A lines give
Block(inp, k) == Field(inp.pat[k], inp.A)

----------------------------------------------------------------------------
(* get_natoms_nvib *)

DiscInit == [pos |-> 0, vib |-> FALSE, xyz |-> FALSE]

\* variant: the [FR-NORM-COORD] line is counted as an atom
DiscStep_marker(d, nat, nvib, line) ==
    IF TokenIn(W("[FREQ]"), line)
    THEN [vib |-> TRUE, xyz |-> FALSE, natoms |-> nat, nvibrations |-> nvib]
    ELSE IF d.vib
    THEN IF TokenIn(W("[FR-COORD]"), line)
         THEN [vib |-> FALSE, xyz |-> TRUE, natoms |-> nat,
               nvibrations |-> nvib]
         ELSE [vib |-> d.vib, xyz |-> d.xyz, natoms |-> nat,
               nvibrations |-> nvib + 1]
    ELSE IF d.xyz
    THEN IF TokenIn(W("[FR-NORM-COORD]"), line)
         THEN [vib |-> FALSE, xyz |-> FALSE, natoms |-> nat + 1,
               nvibrations |-> nvib]
         ELSE [vib |-> d.vib, xyz |-> d.xyz, natoms |-> nat + 1,
               nvibrations |-> nvib]
    ELSE [vib |-> d.vib, xyz |-> d.xyz, natoms |-> nat, nvibrations |-> nvib]

\* variant: [FR-COORD] is tested before the flag vib
DiscStep_anystate(d, nat, nvib, line) ==
    IF TokenIn(W("[FREQ]"), line)
    THEN [vib |-> TRUE, xyz |-> FALSE, natoms |-> nat, nvibrations |-> nvib]
    ELSE IF TokenIn(W("[FR-COORD]"), line)
    THEN [vib |-> FALSE, xyz |-> TRUE, natoms |-> nat, nvibrations |-> nvib]
    ELSE IF d.vib
    THEN [vib |-> d.vib, xyz |-> d.xyz, natoms |-> nat,
          nvibrations |-> nvib + 1]
    ELSE IF d.xyz
    THEN IF TokenIn(W("[FR-NORM-COORD]"), line)
         THEN [vib |-> FALSE, xyz |-> FALSE, natoms |-> nat,
               nvibrations |-> nvib]
         ELSE [vib |-> d.vib, xyz |-> d.xyz, natoms |-> nat + 1,
               nvibrations |-> nvib]
    ELSE [vib |-> d.vib, xyz |-> d.xyz, natoms |-> nat, nvibrations |-> nvib]

\* one pass of the loop body over a line; the counters are the globals
DiscStep(d, nat, nvib, line) ==
    IF TokenIn(W("[FREQ]"), line)
    THEN [vib |-> TRUE, xyz |-> FALSE, natoms |-> nat, nvibrations |-> nvib]
    ELSE IF d.vib
    THEN IF TokenIn(W("[FR-COORD]"), line)
         THEN [vib |-> FALSE, xyz |-> TRUE, natoms |-> nat,
               nvibrations |-> nvib]
         ELSE [vib |-> d.vib, xyz |-> d.xyz, natoms |-> nat,
               nvibrations |-> nvib + 1]
    ELSE IF d.xyz
    THEN IF TokenIn(W("[FR-NORM-COORD]"), line)
         THEN [vib |-> FALSE, xyz |-> FALSE, natoms |-> nat,
               nvibrations |-> nvib]
         ELSE [vib |-> d.vib, xyz |-> d.xyz, natoms |-> nat + 1,
               nvibrations |-> nvib]
    ELSE [vib |-> d.vib, xyz |-> d.xyz, natoms |-> nat, nvibrations |-> nvib]

----------------------------------------------------------------------------
(* read_cp2k_molden_file *)

RdBlank ==
    [pos |-> 0, vib |-> FALSE, xyz |-> FALSE, mod |-> FALSE,
     vibrations |-> <<>>, count |-> 0, coords |-> <<>>, atomtypes |-> <<>>,
     mcount |-> 0, modifications |-> <<>>, m |-> <<>>]

RdInit(nat) ==
    [pos |-> 1, vib |-> FALSE, xyz |-> FALSE, mod |-> FALSE,
     vibrations |-> <<>>, count |-> 0, coords |-> Zeros(nat),
     atomtypes |-> <<>>, mcount |-> 0, modifications |-> <<>>,
     m |-> Zeros(nat)]

\* the exception the loop body raises on a line, "" when it raises none
ReadRaises(r, line, nat) ==
    IF TokenIn(W("[FREQ]"), line) THEN ""
    ELSE IF r.vib
    THEN IF TokenIn(W("[FR-COORD]"), line) THEN ""
         ELSE IF Len(line) = 0 THEN "IndexError"
         ELSE IF ~line[1].num THEN "ValueError"
         ELSE ""
    ELSE IF r.xyz
    THEN IF TokenIn(W("[FR-NORM-COORD]"), line) THEN ""
         ELSE IF r.count < nat
         THEN IF Len(line) = 0 THEN "IndexError"
              ELSE IF ~FloatsOK(PySlice(line, 1, 4)) THEN "ValueError"
              ELSE IF ~RowAssignOK(PySlice(line, 1, 4)) THEN "ValueError"
              ELSE ""
         ELSE ""
    ELSE IF r.mod
    THEN IF TokenIn(W("vibration"), line) THEN ""
         ELSE IF r.mcount < nat
         THEN IF ~FloatsOK(PySlice(line, 0, 3)) THEN "ValueError"
              ELSE IF ~RowAssignOK(PySlice(line, 0, 3)) THEN "ValueError"
              ELSE ""
         ELSE ""
    ELSE ""

\* variant: the buffer is reset before it is appended
HeaderStep_fresh(r, line, nat) ==
    [r EXCEPT
        !.modifications = IF ~TokenIn(Num(1), line)
                          THEN Append(r.modifications, Zeros(nat))
                          ELSE r.modifications,
        !.mcount = 0,
        !.m = Zeros(nat)]

\* variant: the buffer is appended at every header
HeaderStep_always(r, line, nat) ==
    [r EXCEPT
        !.modifications = Append(r.modifications, r.m),
        !.mcount = 0,
        !.m = Zeros(nat)]

\* variant: the buffer is not replaced by a new one
HeaderStep_noreset(r, line, nat) ==
    [r EXCEPT
        !.modifications = IF ~TokenIn(Num(1), line)
                          THEN Append(r.modifications, r.m)
                          ELSE r.modifications,
        !.mcount = 0]

\* a 'vibration' header: the buffer m is appended unless the header has
\* the token 1, then a fresh buffer starts
HeaderStep(r, line, nat) ==
    [r EXCEPT
        !.modifications = IF ~TokenIn(Num(1), line)
                          THEN Append(r.modifications, r.m)
                          ELSE r.modifications,
        !.mcount = 0,
        !.m = Zeros(nat)]

\* variant: the label is stored without the test count < natoms
ReadStep_unguarded(r, line, nat) ==
    IF TokenIn(W("[FREQ]"), line)
    THEN [r EXCEPT !.vib = TRUE, !.xyz = FALSE, !.mod = FALSE]
    ELSE IF r.vib
    THEN IF TokenIn(W("[FR-COORD]"), line)
         THEN [r EXCEPT !.vib = FALSE, !.xyz = TRUE, !.mod = FALSE]
         ELSE [r EXCEPT !.vibrations = Append(r.vibrations, line[1].v)]
    ELSE IF r.xyz
    THEN IF TokenIn(W("[FR-NORM-COORD]"), line)
         THEN [r EXCEPT !.vib = FALSE, !.xyz = FALSE, !.mod = TRUE,
                        !.count = r.count + 1]
         ELSE IF r.count < nat
         THEN [r EXCEPT
                 !.atomtypes = Append(r.atomtypes, line[1]),
                 !.coords[r.count + 1] =
                     RowAssign(Floats(PySlice(line, 1, 4))),
                 !.count = r.count + 1]
         ELSE [r EXCEPT !.atomtypes = Append(r.atomtypes, line[1]),
                        !.count = r.count + 1]
    ELSE IF r.mod
    THEN IF TokenIn(W("vibration"), line)
         THEN HeaderStep(r, line, nat)
         ELSE IF r.mcount < nat
         THEN [r EXCEPT
                 !.m[r.mcount + 1] = RowAssign(Floats(PySlice(line, 0, 3))),
                 !.mcount = r.mcount + 1]
         ELSE r
    ELSE r

\* variant: [FR-NORM-COORD] sets mod and leaves xyz set
ReadStep_keepxyz(r, line, nat) ==
    IF TokenIn(W("[FREQ]"), line)
    THEN [r EXCEPT !.vib = TRUE, !.xyz = FALSE, !.mod = FALSE]
    ELSE IF r.vib
    THEN IF TokenIn(W("[FR-COORD]"), line)
         THEN [r EXCEPT !.vib = FALSE, !.xyz = TRUE, !.mod = FALSE]
         ELSE [r EXCEPT !.vibrations = Append(r.vibrations, line[1].v)]
    ELSE IF r.xyz
    THEN IF TokenIn(W("[FR-NORM-COORD]"), line)
         THEN [r EXCEPT !.vib = FALSE, !.mod = TRUE,
                        !.count = r.count + 1]
         ELSE IF r.count < nat
         THEN [r EXCEPT
                 !.atomtypes = Append(r.atomtypes, line[1]),
                 !.coords[r.count + 1] =
                     RowAssign(Floats(PySlice(line, 1, 4))),
                 !.count = r.count + 1]
         ELSE [r EXCEPT !.count = r.count + 1]
    ELSE IF r.mod
    THEN IF TokenIn(W("vibration"), line)
         THEN HeaderStep(r, line, nat)
         ELSE IF r.mcount < nat
         THEN [r EXCEPT
                 !.m[r.mcount + 1] = RowAssign(Floats(PySlice(line, 0, 3))),
                 !.mcount = r.mcount + 1]
         ELSE r
    ELSE r

\* one pass of the loop body over a line that raises nothing
ReadStep(r, line, nat) ==
    IF TokenIn(W("[FREQ]"), line)
    THEN [r EXCEPT !.vib = TRUE, !.xyz = FALSE, !.mod = FALSE]
    ELSE IF r.vib
    THEN IF TokenIn(W("[FR-COORD]"), line)
         THEN [r EXCEPT !.vib = FALSE, !.xyz = TRUE, !.mod = FALSE]
         ELSE [r EXCEPT !.vibrations = Append(r.vibrations, line[1].v)]
    ELSE IF r.xyz
    THEN IF TokenIn(W("[FR-NORM-COORD]"), line)
         THEN [r EXCEPT !.vib = FALSE, !.xyz = FALSE, !.mod = TRUE,
                        !.count = r.count + 1]
         ELSE IF r.count < nat
         THEN [r EXCEPT
                 !.atomtypes = Append(r.atomtypes, line[1]),
                 !.coords[r.count + 1] =
                     RowAssign(Floats(PySlice(line, 1, 4))),
                 !.count = r.count + 1]
         ELSE [r EXCEPT !.count = r.count + 1]
    ELSE IF r.mod
    THEN IF TokenIn(W("vibration"), line)
         THEN HeaderStep(r, line, nat)
         ELSE IF r.mcount < nat
         THEN [r EXCEPT
                 !.m[r.mcount + 1] = RowAssign(Floats(PySlice(line, 0, 3))),
                 !.mcount = r.mcount + 1]
         ELSE r
    ELSE r

\* variant: the buffer of the last block is appended after the loop
ReadResult_flush(r) ==
    [title |-> "NModes", coords |-> r.coords, atomtypes |-> r.atomtypes,
     intensities |-> r.vibrations,
     vibrations |-> Append(r.modifications, r.m)]

\* the namedtuple of line 200
ReadResult(r) ==
    [title |-> "NModes", coords |-> r.coords, atomtypes |-> r.atomtypes,
     intensities |-> r.vibrations, vibrations |-> r.modifications]

----------------------------------------------------------------------------
(* generate_animation_normal_modes *)

\* variant: negative indices are rejected
IndexOK_nonneg(len, k) == 0 <= k /\ k < len

\* list[k] of Python is defined for -len <= k < len
IndexOK(len, k) == (0 - len) <= k /\ k < len

PyItem(list, k) == IF k >= 0 THEN list[k + 1] ELSE list[Len(list) + k + 1]

\* variant: the upper end is included
PyRange_closed(a, b) == [k \in 1..Max(0, b - a + 1) |-> a + k - 1]

\* range(a, b, 1)
PyRange(a, b) == [k \in 1..Max(0, b - a) |-> a + k - 1]

\* variant: the step 0.1 is left out
Frame_unit(coords, vibration, mm) ==
    [j \in 1..Len(coords) |->
        [a \in 1..3 |->
            StepDen * coords[j][a] + StepDen * mm * vibration[j][a]]]

\* coords + mm * 0.1 * vibration, in tenths
Frame(coords, vibration, mm) ==
    [j \in 1..Len(coords) |->
        [a \in 1..3 |-> StepDen * coords[j][a] + mm * vibration[j][a]]]

AnimRaises(tup, v, n) ==
    IF IndexOK(Len(tup.vibrations), v) THEN "" ELSE "IndexError"

generate_animation_normal_modes(tup, v, n) ==
    LET vibration == PyItem(tup.vibrations, v)
        ms == PyRange(0 - n, n)
    IN  [title |-> v + 1,
         coords |-> [k \in 1..Len(ms) |-> Frame(tup.coords, vibration, ms[k])],
         atomtypes |-> tup.atomtypes]

----------------------------------------------------------------------------
(* write_multiple_XYZ_file *)

\* variant: zip(rows, labels), without cycle
ZipCycle_plain(rows, labels) ==
    [j \in 1..Min(Len(rows), Len(labels)) |->
        [label |-> labels[j],
         xyz |-> [a \in 1..3 |-> ScaleNum * rows[j][a]]]]

\* zip(rows, cycle(labels)): nothing when there is no label to cycle
ZipCycle(rows, labels) ==
    IF Len(labels) = 0 THEN <<>>
    ELSE [j \in 1..Len(rows) |->
            [label |-> labels[((j - 1) % Len(labels)) + 1],
             xyz |-> [a \in 1..3 |-> ScaleNum * rows[j][a]]]]

\* the records written to the file, one per structure of tup.coords
write_multiple_XYZ_file(tup) ==
    [k \in 1..Len(tup.coords) |->
        [natoms |-> Len(tup.coords[k]), title |-> tup.title,
         atoms |-> ZipCycle(tup.coords[k], tup.atomtypes)]]

----------------------------------------------------------------------------
(* File objects.  A file object is "open" after open(), "closed" after     *)
(* close(), and "unref" when the only reference to it was dropped without  *)
(* close(), which leaves closing it to the garbage collector.              *)

NoFiles == [discover |-> "none", read |-> "none", write |-> "none"]

\* [line.rstrip('\n') for line in open(filename)]: the file is read to its
\* end and the file object is dropped, close() is never called
ReadAllLines == "unref"

\* fout.close() on line 266 is reached when no write raised
WriterReturns == "closed"

\* a write that raises leaves the function before line 266
WriterRaises == "open"

----------------------------------------------------------------------------
(* What a call leaves of its arguments *)

\* variant: coords += m * 0.1 * vibration, in place
TupAfterAnimate_inplace(tup, v, n) ==
    [tup EXCEPT !.coords =
        Frame(tup.coords, PyItem(tup.vibrations, v), 0 - n)]

\* lines 221-231 only read tup: coords + m * 0.1 * vibration is a new array
TupAfterAnimate(tup, v, n) == tup

\* lines 259-262 only read the structures: x[0]*f is a new value
TrajAfterWrite(traj) == traj

\* variant: the label cycle is kept between calls
FileWritten_shared(traj, earlier) ==
    LET L == Len(traj.atomtypes)
        rot == [j \in 1..L |->
                   traj.atomtypes[((j - 1 + Len(earlier)) % L) + 1]]
    IN  write_multiple_XYZ_file([traj EXCEPT !.atomtypes = rot])

\* the records a call writes, after the calls that wrote the files earlier:
\* f, fout and the cycle are locals, nothing is kept between calls
FileWritten(traj, earlier) == write_multiple_XYZ_file(traj)

----------------------------------------------------------------------------
(* __main__ *)

Init ==
    /\ input \in Inputs
    /\ lines = FileLines(input)
    /\ fh = NoFiles
    /\ frames = DefaultFrames
    /\ natoms = DefaultNatoms
    /\ nvibrations = DefaultNvibrations
    /\ pc = "parser"
    /\ err = ""
    /\ disc = DiscInit
    /\ rd = RdBlank
    /\ nmodes = <<>>
    /\ vibArg = 0
    /\ i = 0
    /\ animation = <<>>
    /\ out = <<>>

parser ==
    /\ pc = "parser"
    /\ \E f \in 1..MaxFrames : frames' = f
    /\ pc' = "discover"
    /\ UNCHANGED <<input, lines, fh, natoms, nvibrations, err, disc, rd, nmodes,
                   vibArg, i, animation, out>>

DiscoverEnter ==
    /\ pc = "discover"
    /\ natoms' = 0
    /\ nvibrations' = 0
    /\ disc' = [pos |-> 1, vib |-> FALSE, xyz |-> FALSE]
    /\ fh' = [fh EXCEPT !.discover = ReadAllLines]
    /\ pc' = "discover_loop"
    /\ UNCHANGED <<input, lines, frames, err, rd, nmodes, vibArg, i,
                   animation, out>>

DiscoverLine ==
    /\ pc = "discover_loop"
    /\ disc.pos <= Len(lines)
    /\ LET s == DiscStep(disc, natoms, nvibrations, lines[disc.pos]) IN
        /\ disc' = [pos |-> disc.pos + 1, vib |-> s.vib, xyz |-> s.xyz]
        /\ natoms' = s.natoms
        /\ nvibrations' = s.nvibrations
    /\ UNCHANGED <<input, lines, fh, frames, pc, err, rd, nmodes, vibArg, i,
                   animation, out>>

DiscoverReturn ==
    /\ pc = "discover_loop"
    /\ disc.pos > Len(lines)
    /\ pc' = "read"
    /\ UNCHANGED <<input, lines, fh, frames, natoms, nvibrations, err, disc, rd,
                   nmodes, vibArg, i, animation, out>>

ReadEnter ==
    /\ pc = "read"
    /\ rd' = RdInit(natoms)
    /\ fh' = [fh EXCEPT !.read = ReadAllLines]
    /\ pc' = "read_loop"
    /\ UNCHANGED <<input, lines, frames, natoms, nvibrations, err, disc,
                   nmodes, vibArg, i, animation, out>>

ReadLine ==
    /\ pc = "read_loop"
    /\ rd.pos <= Len(lines)
    /\ LET line == lines[rd.pos]
           e == ReadRaises(rd, line, natoms)
       IN  IF e = ""
           THEN /\ rd' = [ReadStep(rd, line, natoms) EXCEPT !.pos = rd.pos + 1]
                /\ UNCHANGED <<pc, err>>
           ELSE /\ pc' = "error"
                /\ err' = e
                /\ UNCHANGED rd
    /\ UNCHANGED <<input, lines, fh, frames, natoms, nvibrations, disc, nmodes,
                   vibArg, i, animation, out>>

ReadReturn ==
    /\ pc = "read_loop"
    /\ rd.pos > Len(lines)
    /\ nmodes' = <<ReadResult(rd)>>
    /\ i' = 0
    /\ pc' = IF nvibrations > 0 THEN "animate" ELSE "done"
    /\ UNCHANGED <<input, lines, fh, frames, natoms, nvibrations, err, disc, rd,
                   vibArg, animation, out>>

\* line 327: the animator is called with the literal mode index 0
MainModeIndex(k) == 0

MainAnimate ==
    /\ pc = "animate"
    /\ vibArg' = MainModeIndex(i)
    /\ LET e == AnimRaises(nmodes[1], vibArg', frames) IN
        IF e = ""
        THEN /\ animation' =
                  <<generate_animation_normal_modes(nmodes[1], vibArg', frames)>>
             /\ nmodes' = <<TupAfterAnimate(nmodes[1], vibArg', frames)>>
             /\ pc' = "write"
             /\ UNCHANGED err
        ELSE /\ pc' = "error"
             /\ err' = e
             /\ UNCHANGED <<animation, nmodes>>
    /\ UNCHANGED <<input, lines, fh, frames, natoms, nvibrations, disc, rd,
                   i, out>>

\* the trajectory shares its atomtypes list with the parsed record
MainWrite ==
    /\ pc = "write"
    /\ out' = Append(out, FileWritten(animation[1], out))
    /\ animation' = <<TrajAfterWrite(animation[1])>>
    /\ nmodes' = <<[nmodes[1] EXCEPT
                      !.atomtypes = TrajAfterWrite(animation[1]).atomtypes]>>
    /\ fh' = [fh EXCEPT !.write = WriterReturns]
    /\ IF i + 1 < nvibrations
       THEN i' = i + 1 /\ pc' = "animate"
       ELSE i' = i /\ pc' = "done"
    /\ UNCHANGED <<input, lines, frames, natoms, nvibrations, err, disc, rd,
                   vibArg>>

\* a write to the open file raises (the device is full, the file is gone):
\* the exception leaves write_multiple_XYZ_file and, uncaught, the loop
MainWriteFails ==
    /\ pc = "write"
    /\ fh' = [fh EXCEPT !.write = WriterRaises]
    /\ pc' = "error"
    /\ err' = "OSError"
    /\ UNCHANGED <<input, lines, frames, natoms, nvibrations, disc, rd,
                   nmodes, vibArg, i, animation, out>>

Next ==
    \/ parser
    \/ DiscoverEnter
    \/ DiscoverLine
    \/ DiscoverReturn
    \/ ReadEnter
    \/ ReadLine
    \/ ReadReturn
    \/ MainAnimate
    \/ MainWrite
    \/ MainWriteFails

Spec == Init /\ [][Next]_vars

----------------------------------------------------------------------------
(* The animator and the writer called on their own, on records drawn from  *)
(* bounded sets: any mode index, label lists shorter or longer than the    *)
(* atoms.                                                                  *)

NoInput ==
    [N |-> 0, A |-> 0, pat |-> <<>>, geo |-> 1, pre |-> 0,
     missing |-> "none", delta |-> 0]

UnitTups ==
    { [title |-> "NModes",
       coords |-> Geometry(g, A),
       atomtypes |-> [j \in 1..L |-> W(Label(j))],
       intensities |-> [k \in 1..Len(pat) |-> 100 * k],
       vibrations |-> [k \in 1..Len(pat) |-> Field(pat[k], A)]] :
        A \in 1..UMaxAtoms, g \in 1..2, L \in 0..(UMaxAtoms + 1),
        pat \in UNION { [1..N -> 1..MaxPattern] : N \in 0..UMaxModes } }

InitUnit ==
    /\ input = NoInput
    /\ lines = <<>>
    /\ fh = NoFiles
    /\ frames \in 0..MaxFrames
    /\ natoms = DefaultNatoms
    /\ nvibrations = DefaultNvibrations
    /\ pc = "call_animate"
    /\ err = ""
    /\ disc = DiscInit
    /\ rd = RdBlank
    /\ nmodes \in { <<t>> : t \in UnitTups }
    /\ vibArg \in (0 - UMaxIndex)..UMaxIndex
    /\ i = 0
    /\ animation = <<>>
    /\ out = <<>>

CallAnimate ==
    /\ pc = "call_animate"
    /\ LET e == AnimRaises(nmodes[1], vibArg, frames) IN
        IF e = ""
        THEN /\ animation' =
                  <<generate_animation_normal_modes(nmodes[1], vibArg, frames)>>
             /\ nmodes' = <<TupAfterAnimate(nmodes[1], vibArg, frames)>>
             /\ pc' = "call_write"
             /\ UNCHANGED err
        ELSE /\ pc' = "error"
             /\ err' = e
             /\ UNCHANGED <<animation, nmodes>>
    /\ UNCHANGED <<input, lines, fh, frames, natoms, nvibrations, disc, rd,
                   vibArg, i, out>>

\* the trajectory is written twice, to two paths
CallWrite ==
    /\ pc \in {"call_write", "call_write_again"}
    /\ out' = Append(out, FileWritten(animation[1], out))
    /\ animation' = <<TrajAfterWrite(animation[1])>>
    /\ nmodes' = <<[nmodes[1] EXCEPT
                      !.atomtypes = TrajAfterWrite(animation[1]).atomtypes]>>
    /\ fh' = [fh EXCEPT !.write = WriterReturns]
    /\ pc' = IF pc = "call_write" THEN "call_write_again" ELSE "done"
    /\ UNCHANGED <<input, lines, frames, natoms, nvibrations, err, disc, rd,
                   vibArg, i>>

NextUnit ==
    \/ CallAnimate
    \/ CallWrite

SpecUnit == InitUnit /\ [][NextUnit]_vars

----------------------------------------------------------------------------
(* read_cp2k_molden_file called on its own: the global natoms it sizes its *)
(* arrays with need not be the number of atom lines of the file.           *)

ReadInputs == { inp \in Inputs : inp.geo = 1 /\ inp.pre = 0 /\ inp.missing = "none" }

InitRead ==
    /\ input \in ReadInputs
    /\ lines = FileLines(input)
    /\ fh = NoFiles
    /\ frames = DefaultFrames
    /\ natoms \in 0..(MaxAtoms + 1)
    /\ nvibrations = DefaultNvibrations
    /\ pc = "read"
    /\ err = ""
    /\ disc = DiscInit
    /\ rd = RdBlank
    /\ nmodes = <<>>
    /\ vibArg = 0
    /\ i = 0
    /\ animation = <<>>
    /\ out = <<>>

NextRead ==
    \/ ReadEnter
    \/ ReadLine
    \/ ReadReturn

SpecRead == InitRead /\ [][NextRead]_vars

----------------------------------------------------------------------------
(* Properties of the parser and the driver, checked under Spec *)

Returned == nmodes # <<>>

Absent(tok) == \A k \in 1..Len(lines) : ~TokenIn(tok, lines[k])

AtomLines(content) == [q \in 1..Len(content) |-> content[q].atoms]

\* C2 as stated: for a well-formed input the atom lines written to
\* <output>i.xyz are those of the animation of mode index i, for every i
\* that is a stored mode.
C2_FileIsModeI ==
    (Returned /\ WellFormed(input)) =>
        \A k \in 1..Len(out) :
            k <= Len(nmodes[1].vibrations) =>
                AtomLines(out[k]) = AtomLines(write_multiple_XYZ_file(
                    generate_animation_normal_modes(nmodes[1], k - 1, frames)))

\* C3: for a well-formed input the returned record has one displacement
\* field fewer than intensities.
C3_DisplacementCount ==
    (Returned /\ WellFormed(input)) =>
        Len(nmodes[1].vibrations) = Len(nmodes[1].intensities) - 1

C3_Witness ==
    /\ Returned
    /\ WellFormed(input)
    /\ Len(nmodes[1].intensities) = 3
    /\ Len(nmodes[1].vibrations) = 2

\* C4: for a well-formed input the atom count and the mode count set by
\* get_natoms_nvib are the number of coordinate rows, the number of atom
\* labels and the number of intensities of the returned record.
C4_DimensionsAgree ==
    (Returned /\ WellFormed(input)) =>
        /\ natoms = Len(nmodes[1].coords)
        /\ natoms = Len(nmodes[1].atomtypes)
        /\ nvibrations = Len(nmodes[1].intensities)

C4_Witness ==
    /\ Returned
    /\ WellFormed(input)
    /\ natoms = 2
    /\ nvibrations = 3
    /\ Len(nmodes[1].atomtypes) = 2

\* C7 as stated: for a well-formed input with N >= 1 modes and no failing
\* write the driver does not end in an error, and when it is done it has
\* written N files.
C7_OneFilePerMode ==
    (WellFormed(input) /\ err # "OSError") =>
        /\ pc # "error"
        /\ pc = "done" => Len(out) = input.N

\* C9 as stated: when a required section marker is absent from the input,
\* read_cp2k_molden_file returns no record.
C9_MissingMarkerFails ==
    (Absent(W("[FREQ]")) \/ Absent(W("[FR-COORD]"))
        \/ Absent(W("[FR-NORM-COORD]"))) => ~Returned

----------------------------------------------------------------------------
(* Properties of the animator and the writer, checked under SpecUnit *)

Animated == animation # <<>>

Tup == nmodes[1]

NModes == Len(Tup.vibrations)

\* the displacement field the call selected
Selected == PyItem(Tup.vibrations, vibArg)

\* the coefficients mm in -n-1..n+1 for which g is coords + mm*0.1*field
Coefficients(g) ==
    { mm \in (0 - frames - 1)..(frames + 1) : g = Frame(Tup.coords, Selected, mm) }

\* C5: a call with n >= 1 that returns gives 2n frames, frame k (from 1)
\* made with the coefficient -n + k - 1 and with no other, so the
\* coefficients are -n .. n-1 in ascending order and +n is not used.
C5_FrameCount ==
    (Animated /\ frames >= 1) =>
        /\ Len(animation[1].coords) = 2 * frames
        /\ \A k \in 1..Len(animation[1].coords) :
              Coefficients(animation[1].coords[k]) = {k - 1 - frames}

C5_Witness ==
    /\ Animated
    /\ frames = 2
    /\ vibArg = 1
    /\ Len(animation[1].coords) = 4

\* C6: frame k (from 0) of a returned animation is, for every atom and
\* axis, 10*equilibrium + (k - n)*displacement in tenths; the example of
\* the specification gives the two frames of the witness.
C6_Linearity ==
    (Animated /\ frames >= 1) =>
        \A k \in 0..(2 * frames - 1) :
            \A j \in 1..Len(Tup.coords) : \A a \in 1..3 :
                animation[1].coords[k + 1][j][a] =
                    10 * Tup.coords[j][a] + (k - frames) * Selected[j][a]

C6_Witness ==
    /\ Animated
    /\ frames = 1
    /\ vibArg = 0
    /\ Tup.coords = << <<0, 0, 0>>, <<1, 0, 0>>, <<0, 1, 0>> >>
    /\ Tup.vibrations[1] = << <<1, 0, 0>>, <<0, 0, 0>>, <<0, 0, 0>> >>
    /\ animation[1].coords =
          << << <<0 - 1, 0, 0>>, <<10, 0, 0>>, <<0, 10, 0>> >>,
             << <<0, 0, 0>>, <<10, 0, 0>>, <<0, 10, 0>> >> >>

AnimateCalled == pc # "call_animate"

Written == out # <<>>

\* C10 as stated: with fewer labels than atoms every written structure has
\* one atom line per atom, line j (from 0) labelled atomLabels[j mod len].
C10_LabelsCycle ==
    (Written /\ Len(Tup.atomtypes) < Len(Tup.coords)) =>
        /\ err = ""
        /\ \A q \in 1..Len(out[1]) :
              /\ Len(out[1][q].atoms) = Len(Tup.coords)
              /\ \A j \in 0..(Len(Tup.coords) - 1) :
                    out[1][q].atoms[j + 1].label =
                        Tup.atomtypes[(j % Len(Tup.atomtypes)) + 1]

\* C10 amended: with at least one label and fewer labels than atoms every
\* written structure has one atom line per atom, line j (from 0) labelled
\* atomLabels[j mod len]; with no label at all the call does not fail
\* either and every written structure has its header and no atom line.
C10_LabelsCycleNonEmpty ==
    (Written /\ Len(Tup.atomtypes) < Len(Tup.coords)) =>
        /\ err = ""
        /\ Len(out[1]) = Len(animation[1].coords)
        /\ \A q \in 1..Len(out[1]) :
              /\ out[1][q].natoms = Len(Tup.coords)
              /\ IF Len(Tup.atomtypes) = 0
                 THEN out[1][q].atoms = <<>>
                 ELSE /\ Len(out[1][q].atoms) = Len(Tup.coords)
                      /\ \A j \in 0..(Len(Tup.coords) - 1) :
                            out[1][q].atoms[j + 1].label =
                                Tup.atomtypes[(j % Len(Tup.atomtypes)) + 1]

C10_Witness ==
    /\ Written
    /\ Len(Tup.atomtypes) = 2
    /\ Len(Tup.coords) = 3
    /\ Len(out[1]) = 4
    /\ out[1][1].atoms[3].label = Tup.atomtypes[1]

----------------------------------------------------------------------------
(* Effects of the calls, file objects and failures *)

C12_FilesClosed ==
    \A f \in {"discover", "read", "write"} : fh[f] # "open"

\* the complete files the run has written
FilesWritten == Len(out)

\* C13 as stated: when a failure in one iteration has ended the loop for a
\* well-formed input, the files of all the other modes have been written.
C13_OtherModesWritten ==
    (WellFormed(input) /\ Returned /\ pc = "error") =>
        FilesWritten = input.N - 1

----------------------------------------------------------------------------
(* Properties of the parse state machine *)

Reading == pc = "read_loop" /\ rd.pos <= Len(lines)

\* the line the reader is about to process
RdLine == lines[rd.pos]

\* a data line of the [FR-COORD] section past the natoms-th
ExtraCoordLine ==
    /\ Reading
    /\ ~TokenIn(W("[FREQ]"), RdLine)
    /\ ~rd.vib /\ rd.xyz
    /\ ~TokenIn(W("[FR-NORM-COORD]"), RdLine)
    /\ rd.count >= natoms

\* a data line of a block past the natoms-th
ExtraBlockLine ==
    /\ Reading
    /\ ~TokenIn(W("[FREQ]"), RdLine)
    /\ ~rd.vib /\ ~rd.xyz /\ rd.mod
    /\ ~TokenIn(W("vibration"), RdLine)
    /\ rd.mcount >= natoms

\* C15: a data line beyond natoms in the [FR-COORD] section or in a block
\* is passed over without an error: no label is added, no stored
\* coordinate, buffer row, field or intensity changes, and the reader is
\* at the next line.
C15_ExtraLinesDiscarded ==
    [][(ExtraCoordLine \/ ExtraBlockLine) =>
          /\ pc' = "read_loop"
          /\ err' = ""
          /\ rd'.pos = rd.pos + 1
          /\ rd'.atomtypes = rd.atomtypes
          /\ rd'.coords = rd.coords
          /\ rd'.m = rd.m
          /\ rd'.modifications = rd.modifications
          /\ rd'.vibrations = rd.vibrations]_vars

C15_Witness ==
    /\ Returned
    /\ natoms = 1
    /\ input.A = 2
    /\ input.N = 3
    /\ input.delta = 1
    /\ rd.count > natoms
    /\ nmodes[1].atomtypes = <<W("C")>>
    /\ Len(nmodes[1].vibrations) = 2

Discovering == pc = "discover_loop" /\ disc.pos <= Len(lines)

\* the line the discovery pass is about to process
DiscLine == lines[disc.pos]

\* none of the first k lines holds the token [FREQ]
NoFreqUpTo(k) == \A j \in 1..k : ~TokenIn(W("[FREQ]"), lines[j])

\* C16: in both passes a line read while no [FREQ] line has been read
\* changes no counter, no flag and no stored field, whatever it holds; a
\* flag is set only by its marker, [FR-COORD] only in the state [FREQ] has
\* set, and [FR-NORM-COORD] only in the state [FR-COORD] has set.
C16_IgnoredBeforeFreq ==
    [][/\ (Discovering /\ NoFreqUpTo(disc.pos)) =>
            /\ natoms' = natoms
            /\ nvibrations' = nvibrations
            /\ disc' = [disc EXCEPT !.pos = disc.pos + 1]
       /\ (Reading /\ NoFreqUpTo(rd.pos)) =>
            /\ rd' = [rd EXCEPT !.pos = rd.pos + 1]
            /\ pc' = pc
            /\ err' = err
       /\ (disc'.vib /\ ~disc.vib) =>
            (Discovering /\ TokenIn(W("[FREQ]"), DiscLine))
       /\ (disc'.xyz /\ ~disc.xyz) =>
            (Discovering /\ disc.vib /\ TokenIn(W("[FR-COORD]"), DiscLine))
       /\ (rd'.vib /\ ~rd.vib) =>
            (Reading /\ TokenIn(W("[FREQ]"), RdLine))
       /\ (rd'.xyz /\ ~rd.xyz) =>
            (Reading /\ rd.vib /\ TokenIn(W("[FR-COORD]"), RdLine))
       /\ (rd'.mod /\ ~rd.mod) =>
            (Reading /\ rd.xyz /\ TokenIn(W("[FR-NORM-COORD]"), RdLine))]_vars

C16_Witness ==
    /\ Returned
    /\ input.pre = 2
    /\ input.missing = "none"
    /\ input.A = 2
    /\ natoms = 2
    /\ nvibrations = input.N
    /\ nmodes[1].atomtypes = <<W("C"), W("H")>>
    /\ nmodes[1].coords = Geometry(input.geo, 2)

\* the last block of the file differs from every block before it
LastBlockDistinct(inp) ==
    \A k \in 1..(inp.N - 1) : inp.pat[k] # inp.pat[inp.N]

\* C17: the list of fields grows only when a 'vibration' header without
\* the token 1 is read, by the buffer filled since the header before it;
\* so for a well-formed input entry j (from 0) of the returned list is
\* block j+1 for j = 0..N-2, and the last block, when no other block
\* equals it, is at no time in the list.
C17_AppendedAtNextHeader ==
    /\ [][rd'.modifications # rd.modifications =>
            /\ Reading
            /\ rd.mod
            /\ TokenIn(W("vibration"), RdLine)
            /\ ~TokenIn(Num(1), RdLine)
            /\ rd'.modifications = Append(rd.modifications, rd.m)]_vars
    /\ [](WellFormed(input) =>
            /\ Returned =>
                 /\ Len(nmodes[1].vibrations) = input.N - 1
                 /\ \A j \in 0..(input.N - 2) :
                       nmodes[1].vibrations[j + 1] = Block(input, j + 1)
            /\ LastBlockDistinct(input) =>
                 \A k \in 1..Len(rd.modifications) :
                     rd.modifications[k] # Block(input, input.N))

C17_Witness ==
    /\ Returned
    /\ WellFormed(input)
    /\ input.pat = <<1, 1, 2>>
    /\ input.A = 2
    /\ rd.m = Block(input, 3)
    /\ nmodes[1].vibrations = <<Block(input, 1), Block(input, 2)>>

\* the flags and counters of get_natoms_nvib after the first k lines
RECURSIVE DiscAfter(_)
DiscAfter(k) ==
    IF k = 0
    THEN [vib |-> FALSE, xyz |-> FALSE, natoms |-> 0, nvibrations |-> 0]
    ELSE LET p == DiscAfter(k - 1)
         IN  DiscStep([vib |-> p.vib, xyz |-> p.xyz], p.natoms,
                      p.nvibrations, lines[k])

\* C18: after any prefix of the lines at most one of the reader's flags
\* vib, xyz and mod is set, and vib and xyz are what get_natoms_nvib has
\* after the same prefix.
C18_OneStateSameStates ==
    /\ ~(rd.vib /\ rd.xyz) /\ ~(rd.vib /\ rd.mod) /\ ~(rd.xyz /\ rd.mod)
    /\ pc = "discover_loop" =>
          LET d == DiscAfter(disc.pos - 1)
          IN  disc.vib = d.vib /\ disc.xyz = d.xyz /\ natoms = d.natoms
    /\ pc \in {"read_loop", "error"} =>
          LET d == DiscAfter(rd.pos - 1)
          IN  rd.vib = d.vib /\ rd.xyz = d.xyz

C18_Witness ==
    /\ pc = "read_loop"
    /\ input.pre = 2
    /\ rd.mod /\ ~rd.vib /\ ~rd.xyz
    /\ ~DiscAfter(rd.pos - 1).vib
    /\ Len(rd.modifications) = 1
    /\ rd.mcount = 1

\* block k as a reader with nat rows stores it: the data lines it has, up
\* to nat, and zero rows after them
StoredBlock(inp, k, nat) ==
    [j \in 1..nat |->
        IF j <= Min(BlockLen(inp, k), inp.A)
        THEN Field(inp.pat[k], inp.A)[j]
        ELSE <<0, 0, 0>>]

\* C19: every stored field has natoms rows, the data lines of its own
\* block and zero in the rows the block has no line for; a 'vibration'
\* header leaves an all-zero buffer; a stored field never changes.
C19_FreshBufferPerBlock ==
    /\ [](rd.pos >= 1 =>
            \A k \in 1..Len(rd.modifications) :
                /\ Len(rd.modifications[k]) = natoms
                /\ rd.modifications[k] = StoredBlock(input, k, natoms))
    /\ [][/\ \A k \in 1..Len(rd.modifications) :
                /\ k <= Len(rd'.modifications)
                /\ rd'.modifications[k] = rd.modifications[k]
           /\ (Reading /\ rd.mod /\ TokenIn(W("vibration"), RdLine)) =>
                (rd'.m = Zeros(natoms) /\ rd'.mcount = 0)]_vars

C19_Witness ==
    /\ Returned
    /\ input.delta = 0 - 1
    /\ input.A = 2
    /\ natoms = 3
    /\ input.pat = <<2, 2, 2>>
    /\ nmodes[1].vibrations =
          << << <<2, 1, 0 - 2>>, <<2, 2, 0 - 2>>, <<0, 0, 0>> >>,
             << <<2, 1, 0 - 2>>, <<0, 0, 0>>, <<0, 0, 0>> >> >>

====
